---------------------------- MODULE Spec2Model ----------------------------
(***************************************************************************)
(* Hour Percent Clock: the time statistics, the birthday configuration    *)
(* file and the main window of the two editions,                           *)
(*   src/HourPercentClock_en.py                  (edition "en")            *)
(*   src/NEW_qt_hour_percent_clock_release.py    (edition "cn").           *)
(*                                                                         *)
(* Numbers.  TLC's integers are 32 bits wide, Python's floats are IEEE     *)
(* doubles.  A quantity of seconds is kept exactly as whole seconds plus   *)
(* microseconds, and a percentage exactly as a mixed number                *)
(*   whole + num / den   with 0 <= num < den.                              *)
(* The doubles of the source differ from these exact values by a relative  *)
(* error below 1e-15, while every comparison made here (against 0, 100)    *)
(* is decided by a margin of at least 1e-8, so the exact value decides it. *)
(***************************************************************************)
EXTENDS Integers, Sequences, FiniteSets, TLC

VARIABLES
    edition,     \* which of the two programs runs: "en" or "cn"
    clock,       \* the system clock: what datetime.now() returns
    file,        \* the content of hour_percent_clock_config.json
    running,     \* a MainWindow exists (between main() and window close)
    birthdate,   \* MainWindow.birthdate
    maxDate,     \* the date control's maximum date (set at construction)
    mode,        \* MainWindow.mode
    hidden,      \* the widgets on which hide() was called last
    buttonText,  \* the toggle button's text
    shown,       \* the snapshot updateClock displayed last
    toggles,     \* number of toggleMode calls since construction
    lastSave,    \* outcome of the most recent save of this session
    raised,      \* an exception escaped a handler
    persisted    \* the birthdate the file holds from the program's last
                 \* complete write (NoDate: none, or a later write broke off)

vars == <<edition, clock, file, running, birthdate, maxDate, mode, hidden,
          buttonText, shown, toggles, lastSave, raised, persisted>>

-----------------------------------------------------------------------------
(* datetime.date as the source uses it: the constructor's range check,     *)
(* comparison, and subtraction through proleptic Gregorian ordinals.       *)

MkDate(y, m, d) == [year |-> y, month |-> m, day |-> d]

\* Python's None where a date is expected
NoDate == MkDate(0, 0, 0)

IsLeap(y) == (y % 4 = 0) /\ ((y % 100 # 0) \/ (y % 400 = 0))

DaysInMonth(y, m) ==
    IF m = 2 THEN (IF IsLeap(y) THEN 29 ELSE 28)
    ELSE IF m \in {4, 6, 9, 11} THEN 30 ELSE 31

\* date(y, m, d) raises ValueError unless this holds
DateValid(y, m, d) ==
    /\ y >= 1 /\ y <= 9999
    /\ m >= 1 /\ m <= 12
    /\ d >= 1 /\ d <= DaysInMonth(y, m)

RECURSIVE DaysBeforeMonth(_, _)
DaysBeforeMonth(y, m) ==
    IF m <= 1 THEN 0 ELSE DaysBeforeMonth(y, m - 1) + DaysInMonth(y, m - 1)

DaysBeforeYear(y) ==
    LET p == y - 1 IN p * 365 + (p \div 4) - (p \div 100) + (p \div 400)

toordinal(dt) == DaysBeforeYear(dt.year) + DaysBeforeMonth(dt.year, dt.month) + dt.day

\* a <= b on dates: year, then month, then day
DateLe(a, b) ==
    \/ a.year < b.year
    \/ a.year = b.year /\ a.month < b.month
    \/ a.year = b.year /\ a.month = b.month /\ a.day <= b.day

\* (a - b).days
DateSub(a, b) == toordinal(a) - toordinal(b)

\* the day after dt on the calendar
NextDay(dt) ==
    IF dt.day < DaysInMonth(dt.year, dt.month) THEN MkDate(dt.year, dt.month, dt.day + 1)
    ELSE IF dt.month < 12 THEN MkDate(dt.year, dt.month + 1, 1)
    ELSE MkDate(dt.year + 1, 1, 1)

RECURSIVE DaysFrom(_, _)
\* the n + 1 consecutive dates starting at dt
DaysFrom(dt, n) == IF n = 0 THEN {dt} ELSE {dt} \cup DaysFrom(NextDay(dt), n - 1)

-----------------------------------------------------------------------------
(* Arithmetic of compute_time_stats.                                       *)

\* minute * 60 + second + microsecond / 1_000_000, exactly
Seconds(s, us) == [sec |-> s, usec |-> us]

\* secs / total * 100.0 for secs below total, as whole + num / den
PctOf(secs, total) ==
    LET c == 100 * secs.sec
    IN  [whole |-> c \div total,
         num   |-> (c % total) * 10000 + secs.usec,
         den   |-> total * 10000]

\* math.ceil(n / k) for a non-negative int n (the double n / 100 is an integer
\* exactly when n is a multiple of 100, for every day count two dates can give)
ceil(n, k) == (n \div k) + (IF n % k = 0 THEN 0 ELSE 1)

max(a, b) == IF a >= b THEN a ELSE b

MkStats(now, hour_pct, day_pct, days_alive, next_hundred, days_to_next) ==
    [now |-> now, hour_pct |-> hour_pct, day_pct |-> day_pct,
     days_alive |-> days_alive, next_hundred |-> next_hundred,
     days_to_next |-> days_to_next]

(* English edition *)

en_hour_pct_mutDay(now) ==
    PctOf(Seconds(now.hour * 3600 + now.minute * 60 + now.second, now.microsecond), 3600)
en_hour_pct(now) ==
    LET sec_in_hour == Seconds(now.minute * 60 + now.second, now.microsecond)
    IN  PctOf(sec_in_hour, 3600)

en_day_pct(now) ==
    LET sec_in_day == Seconds(now.hour * 3600 + now.minute * 60 + now.second,
                              now.microsecond)
    IN  PctOf(sec_in_day, 86400)

en_days_alive_mutNoClamp(now, bd) == DateSub(now.date, bd)
en_days_alive(now, bd) ==
    LET days == DateSub(now.date, bd)
    IN  IF days < 0 THEN 0 ELSE days

en_next_hundred_mutNoAdvance(days_alive) ==
    IF days_alive = 0 THEN 100 ELSE ceil(days_alive, 100) * 100
en_next_hundred(days_alive) ==
    IF days_alive = 0 THEN 100
    ELSE LET next_hundred == ceil(days_alive, 100) * 100
         IN  IF next_hundred = days_alive THEN next_hundred + 100 ELSE next_hundred

en_days_to_next_mutSwapped(next_hundred, days_alive) == max(0, days_alive - next_hundred)
en_days_to_next(next_hundred, days_alive) == max(0, next_hundred - days_alive)

compute_time_stats_en(now, bd) ==
    LET days_alive   == en_days_alive(now, bd)
        next_hundred == en_next_hundred(days_alive)
    IN  MkStats(now, en_hour_pct(now), en_day_pct(now), days_alive, next_hundred,
                en_days_to_next(next_hundred, days_alive))

(* Chinese release edition *)

cn_hour_pct(now) ==
    LET sec_in_hour == Seconds(now.minute * 60 + now.second, now.microsecond)
    IN  PctOf(sec_in_hour, 3600)

cn_day_pct(now) ==
    LET sec_in_day == Seconds(now.hour * 3600 + now.minute * 60 + now.second,
                              now.microsecond)
    IN  PctOf(sec_in_day, 86400)

cn_days_alive(now, bd) ==
    LET days == DateSub(now.date, bd)
    IN  IF days < 0 THEN 0 ELSE days

cn_next_hundred_mutNoAdvance(days_alive) ==
    IF days_alive = 0 THEN 100 ELSE ceil(days_alive, 100) * 100
cn_next_hundred(days_alive) ==
    IF days_alive = 0 THEN 100
    ELSE LET next_hundred == ceil(days_alive, 100) * 100
         IN  IF next_hundred = days_alive THEN next_hundred + 100 ELSE next_hundred

cn_days_to_next(next_hundred, days_alive) == max(0, next_hundred - days_alive)

compute_time_stats_cn(now, bd) ==
    LET days_alive   == cn_days_alive(now, bd)
        next_hundred == cn_next_hundred(days_alive)
    IN  MkStats(now, cn_hour_pct(now), cn_day_pct(now), days_alive, next_hundred,
                cn_days_to_next(next_hundred, days_alive))

compute_time_stats(ed, now, bd) ==
    IF ed = "en" THEN compute_time_stats_en(now, bd) ELSE compute_time_stats_cn(now, bd)

-----------------------------------------------------------------------------
(* The configuration file.  Its content is one of                          *)
(*   "absent"      os.path.exists is False                                 *)
(*   "unreadable"  the file exists and open() raises                       *)
(*   "malformed"   json.load raises (truncated or foreign text)            *)
(*   "array"       valid JSON that is not an object (data.get raises)      *)
(*   "object"      a JSON object; year, month, day are its members         *)
(* A JSON value is [t, v]: t its JSON type, v the number it carries        *)
(* ("2001" and 2001.0 carry 2001, true carries 1, false 0).  A key the     *)
(* object does not have is JMissing; dict.get gives None for it, as for    *)
(* JSON null.                                                              *)

JInt(n)   == [t |-> "int", v |-> n]
JStr(n)   == [t |-> "str", v |-> n]
JFloat(n) == [t |-> "float", v |-> n]
JBool(b)  == [t |-> "bool", v |-> IF b THEN 1 ELSE 0]
JNull     == [t |-> "null", v |-> 0]
JMissing  == [t |-> "missing", v |-> 0]

MkFile(kind, y, m, d) == [kind |-> kind, year |-> y, month |-> m, day |-> d]
JObject(y, m, d) == MkFile("object", y, m, d)
NoObject(kind)   == MkFile(kind, JMissing, JMissing, JMissing)

\* isinstance(x, int) on what json.load produced: bool is a subclass of int
isinstance_int(x) == x.t \in {"int", "bool"}

(* English edition *)

load_birthdate_from_config_en_mutStrict(f, today) ==
    IF f.kind = "absent" THEN NoDate
    ELSE IF f.kind # "object" THEN NoDate
    ELSE LET y == f.year  m == f.month  d == f.day
         IN  IF isinstance_int(y) /\ isinstance_int(m) /\ isinstance_int(d)
             THEN IF ~DateValid(y.v, m.v, d.v) THEN NoDate
                  ELSE LET bd == MkDate(y.v, m.v, d.v)
                       IN  IF ~DateLe(today, bd) THEN bd ELSE NoDate
             ELSE NoDate
load_birthdate_from_config_en(f, today) ==
    IF f.kind = "absent" THEN NoDate                       \* not os.path.exists
    ELSE IF f.kind # "object" THEN NoDate                  \* except Exception
    ELSE LET y == f.year  m == f.month  d == f.day
         IN  IF isinstance_int(y) /\ isinstance_int(m) /\ isinstance_int(d)
             THEN IF ~DateValid(y.v, m.v, d.v) THEN NoDate \* ValueError, caught
                  ELSE LET bd == MkDate(y.v, m.v, d.v)
                       IN  IF DateLe(bd, today) THEN bd ELSE NoDate
             ELSE NoDate

\* what open("w") and json.dump leave behind, and whether an exception escapes;
\* io is how the file system answers: "ok", "open_fails" or "write_fails"
save_birthdate_to_config_en(bd, f, io) ==
    LET data == JObject(JInt(bd.year), JInt(bd.month), JInt(bd.day))
    IN  IF io = "ok" THEN [file |-> data, raised |-> FALSE]
        ELSE IF io = "open_fails" THEN [file |-> f, raised |-> FALSE]
        ELSE [file |-> NoObject("malformed"), raised |-> FALSE]

(* Chinese release edition *)

load_birthdate_from_config_cn_mutOffByOne(f, today) ==
    IF f.kind = "absent" THEN NoDate
    ELSE IF f.kind # "object" THEN NoDate
    ELSE LET y == f.year  m == f.month  d == f.day
         IN  IF ~(isinstance_int(y) /\ isinstance_int(m) /\ isinstance_int(d))
             THEN NoDate
             ELSE IF ~DateValid(y.v, m.v, d.v) THEN NoDate
             ELSE LET bd == MkDate(y.v, m.v, d.v)
                  IN  IF DateLe(today, bd) THEN NoDate ELSE bd
load_birthdate_from_config_cn(f, today) ==
    IF f.kind = "absent" THEN NoDate                       \* not os.path.exists
    ELSE IF f.kind # "object" THEN NoDate                  \* except Exception
    ELSE LET y == f.year  m == f.month  d == f.day
         IN  IF ~(isinstance_int(y) /\ isinstance_int(m) /\ isinstance_int(d))
             THEN NoDate
             ELSE IF ~DateValid(y.v, m.v, d.v) THEN NoDate \* ValueError, caught
             ELSE LET bd == MkDate(y.v, m.v, d.v)
                  IN  IF ~DateLe(bd, today) THEN NoDate ELSE bd

save_birthdate_to_config_cn_mutNoExcept(bd, f, io) ==
    LET data == JObject(JInt(bd.year), JInt(bd.month), JInt(bd.day))
    IN  IF io = "ok" THEN [file |-> data, raised |-> FALSE]
        ELSE IF io = "open_fails" THEN [file |-> f, raised |-> TRUE]
        ELSE [file |-> NoObject("malformed"), raised |-> TRUE]
save_birthdate_to_config_cn_mutSwapped(bd, f, io) ==
    LET data == JObject(JInt(bd.year), JInt(bd.day), JInt(bd.month))
    IN  IF io = "ok" THEN [file |-> data, raised |-> FALSE]
        ELSE IF io = "open_fails" THEN [file |-> f, raised |-> FALSE]
        ELSE [file |-> NoObject("malformed"), raised |-> FALSE]
save_birthdate_to_config_cn(bd, f, io) ==
    LET data == JObject(JInt(bd.year), JInt(bd.month), JInt(bd.day))
    IN  IF io = "ok" THEN [file |-> data, raised |-> FALSE]
        ELSE IF io = "open_fails" THEN [file |-> f, raised |-> FALSE]
        ELSE [file |-> NoObject("malformed"), raised |-> FALSE]

load_birthdate_from_config(ed, f, today) ==
    IF ed = "en" THEN load_birthdate_from_config_en(f, today)
    ELSE load_birthdate_from_config_cn(f, today)

save_birthdate_to_config(ed, bd, f, io) ==
    IF ed = "en" THEN save_birthdate_to_config_en(bd, f, io)
    ELSE save_birthdate_to_config_cn(bd, f, io)

-----------------------------------------------------------------------------
(* Bounds and the inputs drawn from them.                                  *)

\* the clock runs over FirstClockDate and the MaxClockDays days after it
MaxClockDays == 2
\* toggleMode calls counted per window
MaxToggles == 2

FirstClockDate == MkDate(2024, 2, 29)
ClockDates == DaysFrom(FirstClockDate, MaxClockDays)

MkClock(dt, h, mi, s, us) ==
    [date |-> dt, hour |-> h, minute |-> mi, second |-> s, microsecond |-> us]

\* half past noon of every day, and the last instant of the first day
ClockReadings ==
    {MkClock(dt, 12, 30, 0, 0) : dt \in ClockDates}
    \cup {MkClock(FirstClockDate, 23, 59, 59, 999999)}

SecondOfDay(c) == c.hour * 3600 + c.minute * 60 + c.second

\* a is an earlier reading than b
ClockLt(a, b) ==
    \/ toordinal(a.date) < toordinal(b.date)
    \/ /\ a.date = b.date
       /\ \/ SecondOfDay(a) < SecondOfDay(b)
          \/ SecondOfDay(a) = SecondOfDay(b) /\ a.microsecond < b.microsecond

\* dates the user picks in the date control
BirthChoices ==
    {MkDate(2023, 11, 22), MkDate(2024, 2, 1), MkDate(2024, 2, 29), MkDate(2024, 3, 1)}

\* configuration files found at the first start
InitialFiles ==
    {NoObject("absent"), NoObject("unreadable"), NoObject("malformed"),
     NoObject("array"),
     JObject(JMissing, JInt(1), JInt(1)),
     JObject(JStr(2001), JInt(1), JInt(1)),
     JObject(JInt(2001), JFloat(1), JInt(1)),
     JObject(JInt(2001), JInt(1), JNull),
     JObject(JInt(2002), JBool(TRUE), JBool(TRUE)),
     JObject(JBool(FALSE), JInt(1), JInt(1)),
     JObject(JInt(2023), JInt(2), JInt(30)),
     JObject(JInt(2024), JInt(2), JInt(1)),
     JObject(JInt(2024), JInt(3), JInt(1)),
     JObject(JInt(2999), JInt(1), JInt(1))}

IoOutcomes == {"ok", "open_fails", "write_fails"}

-----------------------------------------------------------------------------
(* MainWindow.                                                             *)

DefaultBirthdate(ed) == IF ed = "en" THEN MkDate(2001, 11, 14) ELSE MkDate(2001, 1, 1)

\* the widgets toggleMode hides and shows
ToggledWidgets_mutMissing(ed) ==
    IF ed = "en"
    THEN {"remainingLabel", "livedLabel", "milestoneLabel", "birthLabel"}
    ELSE {"detailFrame"}
ToggledWidgets(ed) ==
    IF ed = "en"
    THEN {"remainingLabel", "livedLabel", "milestoneLabel", "birthLabel", "birthEdit"}
    ELSE {"detailFrame"}

\* the text on the toggle button that offers mode m
ButtonTextFor(ed, m) ==
    IF ed = "en"
    THEN (IF m = "compact" THEN "Switch to Compact Mode" ELSE "Switch to Detailed Mode")
    ELSE (IF m = "simple" THEN "qie huan wei jian jie mo shi"
          ELSE "qie huan wei xiang xi mo shi")

OtherMode(ed) == IF ed = "en" THEN "compact" ELSE "simple"

NoClock == MkClock(NoDate, 0, 0, 0, 0)
NoPct   == [whole |-> 0, num |-> 0, den |-> 1]
NoStats == MkStats(NoClock, NoPct, NoPct, 0, 0, 0)

\* no window: before main() and after the window is closed
NoWindow ==
    /\ running = FALSE
    /\ birthdate = NoDate
    /\ maxDate = NoDate
    /\ mode = "none"
    /\ hidden = {}
    /\ buttonText = ""
    /\ shown = NoStats
    /\ toggles = 0
    /\ lastSave = "none"
    /\ raised = FALSE

Init ==
    /\ edition \in {"en", "cn"}
    /\ clock \in ClockReadings
    /\ file \in InitialFiles
    /\ persisted = NoDate
    /\ NoWindow

\* main(): MainWindow.__init__, which ends with the first updateClock
Start ==
    /\ ~running
    /\ LET loaded == load_birthdate_from_config(edition, file, clock.date)
           bd     == IF loaded # NoDate THEN loaded ELSE DefaultBirthdate(edition)
       IN  /\ birthdate' = bd
           /\ shown' = compute_time_stats(edition, clock, bd)
    /\ running' = TRUE
    /\ maxDate' = clock.date
    /\ mode' = "detailed"
    /\ hidden' = {}
    /\ buttonText' = ButtonTextFor(edition, OtherMode(edition))
    /\ toggles' = 0
    /\ lastSave' = "none"
    /\ raised' = FALSE
    /\ UNCHANGED <<edition, persisted, clock, file>>

\* the timer's timeout
updateClock ==
    /\ running
    /\ shown' = compute_time_stats(edition, clock, birthdate)
    /\ UNCHANGED <<edition, persisted, clock, file, running, birthdate, maxDate, mode, hidden,
                   buttonText, toggles, lastSave, raised>>

\* the date control's dateChanged: a date other than the one held, not after
\* the maximum date
onBirthChanged_mutNoMaximum(qdate, io) ==
    /\ running
    /\ qdate # birthdate
    /\ LET bd    == MkDate(qdate.year, qdate.month, qdate.day)
           saved == save_birthdate_to_config(edition, bd, file, io)
       IN  /\ birthdate' = bd
           /\ file' = saved.file
           /\ raised' = (raised \/ saved.raised)
           /\ shown' = IF saved.raised THEN shown
                       ELSE compute_time_stats(edition, clock, bd)
    /\ lastSave' = IF io = "ok" THEN "ok" ELSE "failed"
    /\ persisted' = IF io = "ok" THEN MkDate(qdate.year, qdate.month, qdate.day)
                     ELSE IF io = "open_fails" THEN persisted ELSE NoDate
    /\ UNCHANGED <<edition, clock, running, maxDate, mode, hidden, buttonText, toggles>>
onBirthChanged(qdate, io) ==
    /\ running
    /\ qdate # birthdate
    /\ DateLe(qdate, maxDate)
    /\ LET bd    == MkDate(qdate.year, qdate.month, qdate.day)
           saved == save_birthdate_to_config(edition, bd, file, io)
       IN  /\ birthdate' = bd
           /\ file' = saved.file
           /\ raised' = (raised \/ saved.raised)
           /\ shown' = IF saved.raised THEN shown
                       ELSE compute_time_stats(edition, clock, bd)
    /\ lastSave' = IF io = "ok" THEN "ok" ELSE "failed"
    /\ persisted' = IF io = "ok" THEN MkDate(qdate.year, qdate.month, qdate.day)
                     ELSE IF io = "open_fails" THEN persisted ELSE NoDate
    /\ UNCHANGED <<edition, clock, running, maxDate, mode, hidden, buttonText, toggles>>

toggleMode ==
    /\ running
    /\ toggles < MaxToggles
    /\ IF mode = "detailed"
       THEN /\ mode' = OtherMode(edition)
            /\ hidden' = hidden \cup ToggledWidgets(edition)
            /\ buttonText' = ButtonTextFor(edition, "detailed")
       ELSE /\ mode' = "detailed"
            /\ hidden' = hidden \ ToggledWidgets(edition)
            /\ buttonText' = ButtonTextFor(edition, OtherMode(edition))
    /\ toggles' = toggles + 1
    /\ UNCHANGED <<edition, persisted, clock, file, running, birthdate, maxDate, shown,
                   lastSave, raised>>

\* the window is closed and the process exits
Close ==
    /\ running
    /\ running' = FALSE
    /\ birthdate' = NoDate
    /\ maxDate' = NoDate
    /\ mode' = "none"
    /\ hidden' = {}
    /\ buttonText' = ""
    /\ shown' = NoStats
    /\ toggles' = 0
    /\ lastSave' = "none"
    /\ raised' = FALSE
    /\ UNCHANGED <<edition, persisted, clock, file>>

\* time passes
ClockAdvance ==
    /\ \E c \in ClockReadings : ClockLt(clock, c) /\ clock' = c
    /\ UNCHANGED <<edition, persisted, file, running, birthdate, maxDate, mode, hidden,
                   buttonText, shown, toggles, lastSave, raised>>

\* the system clock is set back
ClockSetBack ==
    /\ \E c \in ClockReadings : ClockLt(c, clock) /\ clock' = c
    /\ UNCHANGED <<edition, persisted, file, running, birthdate, maxDate, mode, hidden,
                   buttonText, shown, toggles, lastSave, raised>>

Next ==
    \/ Start
    \/ updateClock
    \/ \E qdate \in BirthChoices, io \in IoOutcomes : onBirthChanged(qdate, io)
    \/ toggleMode
    \/ Close
    \/ ClockAdvance
    \/ ClockSetBack

Spec == Init /\ [][Next]_vars

\* the same program under a system clock that is never set back
NextMono ==
    \/ Start
    \/ updateClock
    \/ \E qdate \in BirthChoices, io \in IoOutcomes : onBirthChanged(qdate, io)
    \/ toggleMode
    \/ Close
    \/ ClockAdvance

SpecMono == Init /\ [][NextMono]_vars

-----------------------------------------------------------------------------
(* compute_time_stats over a wide range of inputs: a window of either      *)
(* edition that holds any birthdate of CalcBirthdates, at any reading of   *)
(* CalcReadings, whose labels still show their construction placeholders;  *)
(* updateClock then computes and displays the snapshot.                    *)

\* birthdates run over 2023-01-01 and the MaxCalcDays days after it
MaxCalcDays == 430

\* the calendar of the two years the birthdates are drawn from
CalcCalendar ==
    {dt \in {MkDate(y, m, d) : y \in {2023, 2024}, m \in 1..12, d \in 1..31} :
        DateValid(dt.year, dt.month, dt.day)}

\* the position of each date on that calendar: the dates up to and including it
DayIndex ==
    [dt \in CalcCalendar |-> Cardinality({e \in CalcCalendar : DateLe(e, dt)})]

CalcBirthdates == {dt \in CalcCalendar : DayIndex[dt] <= MaxCalcDays + 1}

CalcDate == MkDate(2024, 3, 1)

CalcReadings ==
    {MkClock(CalcDate, h, mi, t[1], t[2]) :
        h \in {0, 12, 23}, mi \in {0, 30, 59}, t \in {<<0, 0>>, <<59, 999999>>}}

InitCalc ==
    /\ edition \in {"en", "cn"}
    /\ clock \in CalcReadings
    /\ birthdate \in CalcBirthdates
    /\ file = NoObject("absent")
    /\ persisted = NoDate
    /\ running = TRUE
    /\ maxDate = (IF DateLe(birthdate, clock.date) THEN clock.date ELSE birthdate)
    /\ mode = "detailed"
    /\ hidden = {}
    /\ buttonText = ButtonTextFor(edition, OtherMode(edition))
    /\ shown = NoStats
    /\ toggles = 0
    /\ lastSave = "none"
    /\ raised = FALSE

NextCalc == updateClock

SpecCalc == InitCalc /\ [][NextCalc]_vars

\* the snapshot on display was computed (it is not the placeholder)
Computed == shown # NoStats

-----------------------------------------------------------------------------
(* Properties of compute_time_stats, checked under SpecCalc.               *)

\* C1: next_hundred is the smallest multiple of 100 strictly greater than
\* days_alive: 100 at 0, days_alive + 100 at a positive multiple of 100,
\* days_alive rounded up to a multiple of 100 otherwise; never <= days_alive.
C1_NextHundredIsNextMultiple ==
    Computed =>
        LET d == shown.days_alive
            n == shown.next_hundred
        IN  /\ d >= 0
            /\ n % 100 = 0
            /\ n > d
            /\ \A k \in 0..((d \div 100) + 1) : 100 * k > d => n <= 100 * k
            /\ d = 0 => n = 100
            /\ (d > 0 /\ d % 100 = 0) => n = d + 100
            /\ d % 100 # 0 => (n - d < 100 /\ n = 100 * ((d + 99) \div 100))

\* a window whose owner is exactly 100 days old shows the 200-day milestone
C1_Witness ==
    /\ Computed
    /\ shown.days_alive = 100
    /\ shown.next_hundred = 200

\* C2: days_alive is the whole-day difference (date of now minus birthdate)
\* when the birthdate is on or before the date of now, exactly 0 when it is
\* strictly after; never negative.  The difference is counted on the calendar
\* walked day by day.
C2_DaysAliveIsClampedDifference ==
    Computed =>
        LET today == DayIndex[shown.now.date]
            born  == DayIndex[birthdate]
        IN  /\ shown.days_alive >= 0
            /\ born <= today => shown.days_alive = today - born
            /\ born > today => shown.days_alive = 0
            /\ (shown.now.date = MkDate(2024, 3, 1) /\ birthdate = MkDate(2024, 2, 1))
                   => shown.days_alive = 29

\* a birthdate strictly after the date of now, displayed as 0 days
C2_Witness ==
    /\ Computed
    /\ birthdate = MkDate(2024, 3, 4)
    /\ shown.now.date = MkDate(2024, 3, 1)
    /\ shown.days_alive = 0

\* C3: days_to_next = next_hundred - days_alive and days_to_next >= 0, so
\* the max(0, ...) floor never changes the value.
C3_DaysToNextIsDifference ==
    Computed =>
        /\ shown.days_to_next = shown.next_hundred - shown.days_alive
        /\ shown.days_to_next >= 0
        /\ shown.next_hundred - shown.days_alive >= 0

\* 29 days alive: 71 days to the 100-day milestone
C3_Witness ==
    /\ Computed
    /\ shown.days_alive = 29
    /\ shown.next_hundred = 100
    /\ shown.days_to_next = 71

\* p is a percentage in [0, 100): a mixed number with whole part 0..99
InPercentRange(p) ==
    /\ p.whole >= 0 /\ p.whole <= 99
    /\ p.num >= 0 /\ p.num < p.den

\* C4: for every time of day hour_pct and day_pct are in [0, 100); at
\* HH:59:59.999999 hour_pct is below 100, at 23:59:59.999999 day_pct is below
\* 100, and both are exactly 0 at 00:00:00.000000.
C4_PercentagesInRange ==
    Computed =>
        LET now == shown.now
            h   == shown.hour_pct
            d   == shown.day_pct
        IN  /\ InPercentRange(h)
            /\ InPercentRange(d)
            /\ (now.minute = 59 /\ now.second = 59 /\ now.microsecond = 999999)
                   => (h.whole = 99 /\ h.num = h.den - 1)
            /\ (now.hour = 23 /\ now.minute = 59 /\ now.second = 59
                    /\ now.microsecond = 999999)
                   => (d.whole = 99 /\ d.num = d.den - 1)
            /\ (now.hour = 0 /\ now.minute = 0 /\ now.second = 0 /\ now.microsecond = 0)
                   => (h.whole = 0 /\ h.num = 0 /\ d.whole = 0 /\ d.num = 0)
            /\ (now.hour = 12 /\ now.minute = 30 /\ now.second = 0 /\ now.microsecond = 0)
                   => (h.whole = 50 /\ h.num = 0 /\ d.whole = 52 /\ 12 * d.num = d.den)

\* the last microsecond of the day: both percentages just below 100
C4_Witness ==
    /\ Computed
    /\ shown.now.hour = 23 /\ shown.now.minute = 59
    /\ shown.now.second = 59 /\ shown.now.microsecond = 999999
    /\ shown.hour_pct.whole = 99
    /\ shown.day_pct.whole = 99

-----------------------------------------------------------------------------
(* Properties of the configuration file and the window, checked under Spec. *)

\* the file is anything but a JSON object whose year, month and day are
\* JSON integers
NonIntegerConfig(f) ==
    \/ f.kind # "object"
    \/ \E x \in {f.year, f.month, f.day} : x.t # "int"

\* the file is a JSON object whose year, month and day are JSON integers
\* that form a calendar date
IsDateFile(f) ==
    /\ f.kind = "object"
    /\ \A x \in {f.year, f.month, f.day} : x.t = "int"
    /\ DateValid(f.year.v, f.month.v, f.day.v)

FileDate(f) == MkDate(f.year.v, f.month.v, f.day.v)

\* a is on or before b, by day number
OnOrBefore(a, b) == toordinal(a) <= toordinal(b)

\* a window that has not changed its birthdate: the file is the one read at
\* start-up, and maxDate is the date of that start-up
Fresh == running /\ lastSave = "none"

\* C5: load_birthdate_from_config returns None, never raising, whenever the
\* file is absent, unreadable, not valid JSON, lacks a key, or has a year,
\* month or day that is not an integer (a string, a float, null, a boolean);
\* the window then starts with the edition's default birthdate.
C5_NonIntegerConfigRejected ==
    (Fresh /\ NonIntegerConfig(file)) =>
        /\ load_birthdate_from_config(edition, file, maxDate) = NoDate
        /\ birthdate = DefaultBirthdate(edition)
        /\ ~raised

\* the same with JSON booleans left out of "not an integer"
LoadRejectsNonNumberConfig ==
    (Fresh /\ NonIntegerConfig(file)
           /\ \A x \in {file.year, file.month, file.day} : x.t # "bool") =>
        /\ load_birthdate_from_config(edition, file, maxDate) = NoDate
        /\ birthdate = DefaultBirthdate(edition)
        /\ ~raised

\* C6: a file of three integers that form a calendar date is loaded if and
\* only if the date is on or before the current date: a date after today is
\* rejected and the default used, a date equal to today is accepted.
C6_DateFileLoadedIffNotFuture ==
    /\ IsDateFile(file) =>
           \A today \in ClockDates :
               load_birthdate_from_config(edition, file, today)
                   = (IF OnOrBefore(FileDate(file), today) THEN FileDate(file) ELSE NoDate)
    /\ (Fresh /\ IsDateFile(file)) =>
           birthdate = (IF OnOrBefore(FileDate(file), maxDate) THEN FileDate(file)
                        ELSE DefaultBirthdate(edition))

\* started on the very day the file names: that day is the birthdate
C6_Witness ==
    /\ Fresh
    /\ IsDateFile(file)
    /\ FileDate(file) = maxDate
    /\ birthdate = maxDate

\* C7: on every birthdate change, whether the save succeeds or fails, the
\* handler does not raise, the in-memory birthdate is the chosen date, and
\* the stats on display are recomputed from it before the handler returns.
C7_BirthChangeSurvivesSaveFailure ==
    [][\A qdate \in BirthChoices, io \in IoOutcomes :
           onBirthChanged(qdate, io) =>
               /\ birthdate' = qdate
               /\ raised' = FALSE
               /\ shown'.now = clock'
               /\ shown' = compute_time_stats(edition, clock', qdate)]_vars

\* a change to 2024-02-01 on 2024-03-01 whose write broke off: the file is
\* ruined, the window shows 29 days
C7_Witness ==
    /\ running
    /\ lastSave = "failed"
    /\ file.kind = "malformed"
    /\ birthdate = MkDate(2024, 2, 1)
    /\ shown.now = clock
    /\ shown.days_alive = 29
    /\ ~raised

\* C8: when the most recent birthdate change's save succeeded, the file
\* holds exactly the year, month and day of the in-memory birthdate, and the
\* next start, on a date not before that birthdate, loads exactly it.
C8_SavedBirthdateRoundTrips ==
    /\ (running /\ lastSave = "ok") =>
           /\ file.kind = "object"
           /\ file.year = JInt(birthdate.year)
           /\ file.month = JInt(birthdate.month)
           /\ file.day = JInt(birthdate.day)
           /\ persisted = birthdate
           /\ \A today \in ClockDates :
                  OnOrBefore(birthdate, today) =>
                      load_birthdate_from_config(edition, file, today) = birthdate
    /\ (Fresh /\ persisted # NoDate /\ OnOrBefore(persisted, maxDate)) =>
           birthdate = persisted

\* a window started again after 2024-02-01 was saved, toggled once since
C8_Witness ==
    /\ Fresh
    /\ persisted = MkDate(2024, 2, 1)
    /\ birthdate = MkDate(2024, 2, 1)
    /\ toggles = 1

\* the editions' compute_time_stats agree on every reading and every birthdate
\* a window can hold
ComputeAgrees ==
    \A c \in ClockReadings,
       bd \in BirthChoices \cup {DefaultBirthdate("en"), DefaultBirthdate("cn")} :
        compute_time_stats_en(c, bd) = compute_time_stats_cn(c, bd)

\* C9: the two editions compute the same snapshot from the same reading and
\* birthdate, load the same birthdate (or both none) from the same file on
\* the same date, and write the same file; a window's start-up birthdate is
\* that common load, or else the edition's own default.
C9_EditionsAgree ==
    /\ ComputeAgrees
    /\ running => compute_time_stats_en(clock, birthdate)
                      = compute_time_stats_cn(clock, birthdate)
    /\ \A today \in ClockDates :
           load_birthdate_from_config_en(file, today)
               = load_birthdate_from_config_cn(file, today)
    /\ running => \A io \in IoOutcomes :
           save_birthdate_to_config_en(birthdate, file, io)
               = save_birthdate_to_config_cn(birthdate, file, io)
    /\ Fresh =>
           LET loaded == load_birthdate_from_config_en(file, maxDate)
           IN  birthdate = (IF loaded # NoDate THEN loaded ELSE DefaultBirthdate(edition))

\* a window of the Chinese edition that loaded the date its file names and
\* shows what the English edition computes
C9_Witness ==
    /\ Fresh
    /\ edition = "cn"
    /\ IsDateFile(file)
    /\ birthdate = FileDate(file)
    /\ load_birthdate_from_config_en(file, maxDate) = birthdate
    /\ shown = compute_time_stats_en(clock, birthdate)
    /\ shown.days_alive > 0

\* the widgets that show the details: remaining today, days alive, the
\* milestone, the birthday input
DetailWidgets(ed) ==
    IF ed = "en" THEN {"remainingLabel", "livedLabel", "milestoneLabel", "birthEdit"}
    ELSE {"remainingLabel", "lifeLabel", "nextHundredLabel", "birthDateEdit"}

\* the widget whose hide() takes w off the screen: w itself, or the frame
\* it is laid out in
ContainerOf(ed, w) == IF ed = "en" THEN w ELSE "detailFrame"

IsVisible(ed, w) == w \notin hidden /\ ContainerOf(ed, w) \notin hidden

\* C10: the window starts detailed and every toggleMode flips between two
\* modes; the mode is detailed exactly when the number of toggles is even,
\* the detail widgets are visible exactly when it is detailed, and the button
\* names the other mode; ticks and birthdate changes never alter the mode.
C10_ModeFollowsToggleParity ==
    running =>
        /\ mode \in {"detailed", IF edition = "en" THEN "compact" ELSE "simple"}
        /\ (mode = "detailed") <=> (toggles % 2 = 0)
        /\ \A w \in DetailWidgets(edition) :
               IsVisible(edition, w) <=> (mode = "detailed")
        /\ edition = "en" =>
               buttonText = (IF mode = "detailed" THEN "Switch to Compact Mode"
                             ELSE "Switch to Detailed Mode")
        /\ edition = "cn" =>
               buttonText = (IF mode = "detailed" THEN "qie huan wei jian jie mo shi"
                             ELSE "qie huan wei xiang xi mo shi")

\* two toggles, a tick at a later reading and a saved birthdate change later
C10_Witness ==
    /\ running
    /\ toggles = 2
    /\ mode = "detailed"
    /\ lastSave = "ok"
    /\ shown.now.date # maxDate
    /\ hidden = {}

-----------------------------------------------------------------------------
(* Properties of the running window under a clock that is never set back,  *)
(* checked under SpecMono.  Every reading of ClockReadings is after both   *)
(* editions' default birthdates.                                           *)

\* C11: whatever file the window started from, and whatever ticks, toggles
\* and birthday edits (limited by the date control's maximum date) followed,
\* the in-memory birthdate is never strictly after the current date, so the
\* clamp of a negative days_alive to 0 is never exercised.
C11_BirthdateNeverInFuture ==
    running =>
        /\ OnOrBefore(DefaultBirthdate(edition), clock.date)
        /\ OnOrBefore(maxDate, clock.date)
        /\ OnOrBefore(birthdate, clock.date)
        /\ DateSub(clock.date, birthdate) >= 0
        /\ DateSub(shown.now.date, birthdate) >= 0
        /\ shown.days_alive = DateSub(shown.now.date, birthdate)

\* the latest birthday the date control allows, picked and saved on the day
\* the window was started: zero days alive, and no clamping
C11_Witness ==
    /\ running
    /\ lastSave = "ok"
    /\ birthdate = maxDate
    /\ birthdate = clock.date
    /\ shown.now = clock
    /\ shown.days_alive = 0

\* the two displayed results belong to refreshes of one window with the same
\* birthdate, which is on or before the date of the earlier refresh
SuccessiveRefreshes ==
    /\ running /\ running'
    /\ shown # NoStats
    /\ birthdate' = birthdate
    /\ OnOrBefore(birthdate, shown.now.date)
    /\ ~ ClockLt(shown'.now, shown.now)

\* C12: across successive refreshes with an unchanged birthdate on or before
\* the current date and a clock that is never set back, days_alive and
\* next_hundred never decrease; when the calendar date has advanced by one
\* day, days_alive grows by exactly 1 and days_to_next either drops by exactly
\* 1 or, when it was 1, resets to 100 while next_hundred grows by exactly 100;
\* the countdown never shows 0.
C12_CountdownAdvancesDayByDay ==
    [][SuccessiveRefreshes =>
         /\ shown'.days_alive >= shown.days_alive
         /\ shown'.next_hundred >= shown.next_hundred
         /\ shown'.days_alive - shown.days_alive
                = DateSub(shown'.now.date, shown.now.date)
         /\ shown.days_to_next >= 1
         /\ shown'.days_to_next >= 1
         /\ shown'.now.date = NextDay(shown.now.date) =>
                /\ shown'.days_alive = shown.days_alive + 1
                /\ IF shown.days_to_next = 1
                   THEN /\ shown'.days_to_next = 100
                        /\ shown'.next_hundred = shown.next_hundred + 100
                   ELSE /\ shown'.days_to_next = shown.days_to_next - 1
                        /\ shown'.next_hundred = shown.next_hundred]_vars

\* a refresh on the hundredth day of a window started on the ninety-ninth:
\* the countdown has gone from 1 to 100 and the milestone from 100 to 200
C12_Witness ==
    /\ running
    /\ birthdate = MkDate(2023, 11, 22)
    /\ maxDate = MkDate(2024, 2, 29)
    /\ shown.now.date = NextDay(maxDate)
    /\ shown.days_alive = 100
    /\ shown.next_hundred = 200
    /\ shown.days_to_next = 100

=============================================================================
